---- MODULE Spec2Model ----
(***************************************************************************)
(* Model of arch/z80/src/common/z80_createstack.c: up_create_stack() and   *)
(* the parts of its environment it acts on (the two heaps, the stack       *)
(* memory, up_release_stack()).                                            *)
(*                                                                         *)
(* One call of up_create_stack() is one atomic step: the scheduler         *)
(* serialises the calls on one TCB.  The variable last records the call    *)
(* that has just returned (its arguments, its result and the heap calls it *)
(* made), so that properties of one call can be stated on the state it     *)
(* leaves or on the step it takes.                                         *)
(***************************************************************************)
EXTENDS Integers, Sequences, FiniteSets, TLC

VARIABLES
  tcb,                      \* the stack fields of struct tcb_s
  heap,                     \* the live regions: [base, size, dom]
  mem,                      \* the bytes of the region at tcb.stack_alloc_ptr
  requested_size,           \* stack_size of the create that set up the stack
  last,                     \* the up_create_stack() call that just returned
  CONFIG_MM_KERNEL_HEAP,    \* build option: a kernel heap exists
  CONFIG_STACK_COLORATION   \* build option: colour the stack

vars == <<tcb, heap, mem, requested_size, last,
          CONFIG_MM_KERNEL_HEAP, CONFIG_STACK_COLORATION>>

(***************************************************************************)
(* Bounds of the model.                                                    *)
(***************************************************************************)
MaxStackSize == 8
MaxBase == 4

(***************************************************************************)
(* Program constants.                                                      *)
(***************************************************************************)
SizeBits == 16
Modulus == 2 ^ SizeBits
NULL == 0
OK == 0
ERROR == -1
WordSize == 4
AlignMask == 3
ColorByte == 170
TCB_FLAG_TTYPE_TASK == "task"
TCB_FLAG_TTYPE_PTHREAD == "pthread"
TCB_FLAG_TTYPE_KERNEL == "kernel"

TTypes == {TCB_FLAG_TTYPE_TASK, TCB_FLAG_TTYPE_PTHREAD, TCB_FLAG_TTYPE_KERNEL}
Sizes == 1 .. MaxStackSize
Bases == 1 .. MaxBase
UsedByte == 85
Garbage == {0}

(***************************************************************************)
(* Unsigned arithmetic of the width of size_t.                             *)
(***************************************************************************)
Wrap(x) == x % Modulus

\* x & y, bit by bit from the lowest
RECURSIVE BitAnd(_, _)
BitAnd(x, y) ==
  IF x = 0 \/ y = 0 THEN 0
  ELSE (x % 2) * (y % 2) + 2 * BitAnd(x \div 2, y \div 2)

BitNot(x) == Modulus - 1 - x

(***************************************************************************)
(* The heaps.  A heap call is logged as [op, dom, ptr, size, owner]: dom   *)
(* is the heap that is called, owner the heap the region came from.        *)
(***************************************************************************)
Overlaps(b1, s1, b2, s2) == b1 < b2 + s2 /\ b2 < b1 + s1

MallocCanReturn(h, size, ret) ==
  \/ ret = NULL
  \/ /\ ret \in Bases
     /\ ret + size <= Modulus
     /\ \A r \in h : ~Overlaps(ret, size, r.base, r.size)

Filled(n, b) == [i \in 1 .. n |-> b]

RegionAt(h, ptr) == CHOOSE r \in h : r.base = ptr

(***************************************************************************)
(* The state one call works on: the TCB, the heaps, the stack memory, the  *)
(* heap calls made so far and the value returned.                          *)
(*                                                                         *)
(* last holds, of the call that just returned: stack_size, ttype, the      *)
(* value returned and the heap calls in order.  A step that leaves         *)
(* last.called true is a call of up_create_stack(): the unprimed variables *)
(* are what the call found, the primed ones what it left.                  *)
(***************************************************************************)
CallState == [tcb |-> tcb, heap |-> heap, mem |-> mem, calls |-> <<>>, ret |-> OK]

NoCall ==
  [called |-> FALSE, stack_size |-> 0, ttype |-> TCB_FLAG_TTYPE_TASK,
   ret |-> OK, calls |-> <<>>]

(***************************************************************************)
(* up_release_stack(): free the stack to the heap that the thread type     *)
(* names and reset the TCB to the unallocated state.                       *)
(***************************************************************************)
ReleaseHeap(ttype) ==
  IF CONFIG_MM_KERNEL_HEAP /\ ttype = TCB_FLAG_TTYPE_KERNEL THEN "kmm" ELSE "kumm"

up_release_stack(s, ttype) ==
  LET ptr == s.tcb.stack_alloc_ptr
      r == RegionAt(s.heap, ptr)
  IN [s EXCEPT
        !.heap = {x \in s.heap : x.base # ptr},
        !.calls = Append(@, [op |-> "free", dom |-> ReleaseHeap(ttype), ptr |-> ptr,
                             size |-> 0, owner |-> r.dom]),
        !.tcb = [stack_alloc_ptr |-> NULL, adj_stack_ptr |-> NULL, adj_stack_size |-> 0],
        !.mem = <<>>]

(***************************************************************************)
(* up_create_stack(), in the order of the code.                            *)
(***************************************************************************)
\* variant: a stack that is there is always released
NeedRelease_Always(t, stack_size) == t.stack_alloc_ptr # NULL

\* variant: a stack that is big enough is kept
NeedRelease_IfSmaller(t, stack_size) ==
  t.stack_alloc_ptr # NULL /\ t.adj_stack_size < stack_size

\* "Is there already a stack allocated of a different size?"
NeedRelease(t, stack_size) ==
  t.stack_alloc_ptr # NULL /\ t.adj_stack_size # stack_size

\* variant: the old stack is released as a task's stack whatever ttype is
ReleaseOld_AsTask(s, stack_size, ttype) ==
  IF NeedRelease(s.tcb, stack_size)
  THEN up_release_stack(s, TCB_FLAG_TTYPE_TASK) ELSE s

ReleaseOld(s, stack_size, ttype) ==
  IF NeedRelease(s.tcb, stack_size) THEN up_release_stack(s, ttype) ELSE s

\* variant: every thread other than a task allocates from the kernel heap
SelectHeap_AnyThread(ttype) ==
  IF CONFIG_MM_KERNEL_HEAP /\ ttype # TCB_FLAG_TTYPE_TASK THEN "kmm" ELSE "kumm"

\* kmm_malloc() for a kernel thread when there is a kernel heap, else kumm_malloc()
SelectHeap(ttype) ==
  IF CONFIG_MM_KERNEL_HEAP /\ ttype = TCB_FLAG_TTYPE_KERNEL THEN "kmm" ELSE "kumm"

\* variant: the heap is called a second time when it has returned NULL
AllocateNew_Retry(s, stack_size, ttype, ret, garbage) ==
  IF s.tcb.stack_alloc_ptr = NULL
  THEN LET call == [op |-> "malloc", dom |-> SelectHeap(ttype), ptr |-> ret,
                    size |-> stack_size, owner |-> SelectHeap(ttype)]
       IN [s EXCEPT
             !.tcb.stack_alloc_ptr = ret,
             !.heap = IF ret = NULL THEN @
                      ELSE @ \cup {[base |-> ret, size |-> stack_size,
                                    dom |-> SelectHeap(ttype)]},
             !.mem = IF ret = NULL THEN <<>> ELSE Filled(stack_size, garbage),
             !.calls = IF ret = NULL THEN @ \o <<call, call>> ELSE Append(@, call)]
  ELSE s

\* variant: a new stack is allocated whether or not there is one
AllocateNew_Always(s, stack_size, ttype, ret, garbage) ==
  [s EXCEPT
     !.tcb.stack_alloc_ptr = ret,
     !.heap = IF ret = NULL THEN @
              ELSE @ \cup {[base |-> ret, size |-> stack_size,
                            dom |-> SelectHeap(ttype)]},
     !.mem = IF ret = NULL THEN <<>> ELSE Filled(stack_size, garbage),
     !.calls = Append(@, [op |-> "malloc", dom |-> SelectHeap(ttype), ptr |-> ret,
                          size |-> stack_size, owner |-> SelectHeap(ttype)])]

\* "Do we need to allocate a new stack?"  ret is what the heap returns and
\* garbage the byte the new region happens to hold.
AllocateNew(s, stack_size, ttype, ret, garbage) ==
  IF s.tcb.stack_alloc_ptr = NULL
  THEN [s EXCEPT
          !.tcb.stack_alloc_ptr = ret,
          !.heap = IF ret = NULL THEN @
                   ELSE @ \cup {[base |-> ret, size |-> stack_size,
                                 dom |-> SelectHeap(ttype)]},
          !.mem = IF ret = NULL THEN <<>> ELSE Filled(stack_size, garbage),
          !.calls = Append(@, [op |-> "malloc", dom |-> SelectHeap(ttype), ptr |-> ret,
                               size |-> stack_size, owner |-> SelectHeap(ttype)])]
  ELSE s

\* variant: the fill is left out
memset_Skipped(m, c, n) == m

\* variant: the fill stops one byte short
memset_Short(m, c, n) == [i \in 1 .. Len(m) |-> IF i < n THEN c ELSE m[i]]

\* memset(ptr, c, n) on the region whose bytes are m
memset(m, c, n) == [i \in 1 .. Len(m) |-> IF i <= n THEN c ELSE m[i]]

\* variant: the top is not lowered by one word
TopOfStack_NoWord(ptr, stack_size) ==
  BitAnd(Wrap(ptr + stack_size), BitNot(AlignMask))

\* variant: the top is aligned to 2 bytes only
TopOfStack_HalfWord(ptr, stack_size) ==
  BitAnd(Wrap(ptr + stack_size - WordSize), BitNot(1))

\* variant: the top is lowered by two words
TopOfStack_TwoWords(ptr, stack_size) ==
  BitAnd(Wrap(ptr + stack_size - 2 * WordSize), BitNot(AlignMask))

\* top_of_stack = (uint32_t)stack_alloc_ptr + stack_size - 4; top_of_stack &= ~3
TopOfStack(ptr, stack_size) ==
  BitAnd(Wrap(ptr + stack_size - WordSize), BitNot(AlignMask))

\* variant: two words are added instead of one
SizeOfStack_TwoWords(top, ptr) == Wrap(top - ptr + 2 * WordSize)

\* variant: the base is not subtracted
SizeOfStack_FromZero(top, ptr) == Wrap(top + WordSize)

\* variant: the word at the top is not counted
SizeOfStack_NoWord(top, ptr) == Wrap(top - ptr)

\* size_of_stack = top_of_stack - (uint32_t)stack_alloc_ptr + 4
SizeOfStack(top, ptr) == Wrap(top - ptr + WordSize)

\* variant: OK is returned whether or not there is a stack
SetupStack_AlwaysOk(s, stack_size) ==
  IF s.tcb.stack_alloc_ptr # NULL
  THEN LET ptr == s.tcb.stack_alloc_ptr
           top_of_stack == TopOfStack(ptr, stack_size)
           size_of_stack == SizeOfStack(top_of_stack, ptr)
       IN [s EXCEPT
             !.mem = IF CONFIG_STACK_COLORATION
                     THEN memset(@, ColorByte, stack_size) ELSE @,
             !.tcb.adj_stack_ptr = top_of_stack,
             !.tcb.adj_stack_size = size_of_stack,
             !.ret = OK]
  ELSE [s EXCEPT !.ret = OK]

\* variant: adj_stack_ptr is not saved
SetupStack_NoPtr(s, stack_size) ==
  IF s.tcb.stack_alloc_ptr # NULL
  THEN LET ptr == s.tcb.stack_alloc_ptr
           top_of_stack == TopOfStack(ptr, stack_size)
           size_of_stack == SizeOfStack(top_of_stack, ptr)
       IN [s EXCEPT
             !.mem = IF CONFIG_STACK_COLORATION
                     THEN memset(@, ColorByte, stack_size) ELSE @,
             !.tcb.adj_stack_size = size_of_stack,
             !.ret = OK]
  ELSE [s EXCEPT !.ret = ERROR]

\* variant: adj_stack_size is not saved
SetupStack_NoSize(s, stack_size) ==
  IF s.tcb.stack_alloc_ptr # NULL
  THEN LET ptr == s.tcb.stack_alloc_ptr
           top_of_stack == TopOfStack(ptr, stack_size)
       IN [s EXCEPT
             !.mem = IF CONFIG_STACK_COLORATION
                     THEN memset(@, ColorByte, stack_size) ELSE @,
             !.tcb.adj_stack_ptr = top_of_stack,
             !.ret = OK]
  ELSE [s EXCEPT !.ret = ERROR]

\* "Did we successfully allocate a stack?"
SetupStack(s, stack_size) ==
  IF s.tcb.stack_alloc_ptr # NULL
  THEN LET ptr == s.tcb.stack_alloc_ptr
           top_of_stack == TopOfStack(ptr, stack_size)
           size_of_stack == SizeOfStack(top_of_stack, ptr)
       IN [s EXCEPT
             !.mem = IF CONFIG_STACK_COLORATION
                     THEN memset(@, ColorByte, stack_size) ELSE @,
             !.tcb.adj_stack_ptr = top_of_stack,
             !.tcb.adj_stack_size = size_of_stack,
             !.ret = OK]
  ELSE [s EXCEPT !.ret = ERROR]

\* The three parts in sequence; each part works on the value the part before
\* it has produced.
up_create_stack(s, stack_size, ttype, ret, garbage) ==
  CHOOSE out \in
    {SetupStack(s2, stack_size) :
       s2 \in {AllocateNew(s1, stack_size, ttype, ret, garbage) :
                 s1 \in {ReleaseOld(s0, stack_size, ttype) : s0 \in {s}}}} : TRUE

(***************************************************************************)
(* The state machine.                                                      *)
(***************************************************************************)
Init ==
  /\ tcb = [stack_alloc_ptr |-> NULL, adj_stack_ptr |-> NULL, adj_stack_size |-> 0]
  /\ heap = {}
  /\ mem = <<>>
  /\ requested_size = 0
  /\ last = NoCall
  /\ CONFIG_MM_KERNEL_HEAP \in BOOLEAN
  /\ CONFIG_STACK_COLORATION \in BOOLEAN

\* A call of up_create_stack(tcb, stack_size, ttype) with stack_size in S
CreateOf(S) ==
  \E stack_size \in S, ttype \in TTypes, ret \in {NULL} \cup Bases,
     garbage \in Garbage :
    \E s \in {up_create_stack(CallState, stack_size, ttype, ret, garbage)} :
       /\ MallocCanReturn(ReleaseOld(CallState, stack_size, ttype).heap,
                          stack_size, ret)
       /\ tcb' = s.tcb
       /\ heap' = s.heap
       /\ mem' = s.mem
       /\ requested_size' = IF s.ret = OK THEN stack_size ELSE 0
       /\ last' = [called |-> TRUE, stack_size |-> stack_size, ttype |-> ttype,
                   ret |-> s.ret, calls |-> s.calls]
       /\ UNCHANGED <<CONFIG_MM_KERNEL_HEAP, CONFIG_STACK_COLORATION>>

Create == CreateOf(Sizes)

\* A call of up_create_stack() that asks for at least one word
WordSizes == WordSize .. MaxStackSize

CreateWord == CreateOf(WordSizes)

\* A call of up_release_stack(tcb, ttype) at thread teardown
Release ==
  \E ttype \in TTypes :
    \E s \in {IF tcb.stack_alloc_ptr # NULL
                THEN up_release_stack(CallState, ttype) ELSE CallState} :
       /\ tcb.stack_alloc_ptr # NULL
       /\ tcb' = s.tcb
       /\ heap' = s.heap
       /\ mem' = s.mem
       /\ requested_size' = 0
       /\ last' = NoCall
       /\ UNCHANGED <<CONFIG_MM_KERNEL_HEAP, CONFIG_STACK_COLORATION>>

\* The thread runs on its push-down stack and has used it down to offset d - 1
StackUse ==
  \E d \in 1 .. Len(mem) :
    /\ tcb.stack_alloc_ptr # NULL
    /\ mem' = [i \in 1 .. Len(mem) |-> IF i >= d THEN UsedByte ELSE mem[i]]
    /\ last' = NoCall
    /\ UNCHANGED <<tcb, heap, requested_size,
                   CONFIG_MM_KERNEL_HEAP, CONFIG_STACK_COLORATION>>

Next == Create \/ Release \/ StackUse

Spec == Init /\ [][Next]_vars

\* The same machine when every stack asked for has at least one word
NextWord == CreateWord \/ Release \/ StackUse

SpecWord == Init /\ [][NextWord]_vars

TypeOK ==
  /\ tcb.stack_alloc_ptr \in 0 .. Modulus - 1
  /\ tcb.adj_stack_size \in 0 .. Modulus - 1
  /\ Cardinality(heap) <= 1
  /\ (tcb.stack_alloc_ptr = NULL) = (heap = {})

(***************************************************************************)
(* Properties.                                                             *)
(***************************************************************************)
MallocCalls == {i \in 1 .. Len(last.calls) : last.calls[i].op = "malloc"}
FreeCalls == {i \in 1 .. Len(last.calls) : last.calls[i].op = "free"}
MallocFailed == \E i \in MallocCalls : last.calls[i].ptr = NULL
MallocSucceeded == \E i \in MallocCalls : last.calls[i].ptr # NULL
RawSize == RegionAt(heap, tcb.stack_alloc_ptr).size
MinStackSize == 2 * WordSize

\* C1: if create(S) succeeded and create(S) is called again with no call in
\* between, the second call makes no heap call (no allocation, no release) and
\* leaves stack_alloc_ptr as it was.
C1_IdempotentReuse ==
  [][(last'.called /\ tcb.stack_alloc_ptr # NULL
        /\ requested_size = last'.stack_size)
       => (last'.calls = <<>> /\ tcb'.stack_alloc_ptr = tcb.stack_alloc_ptr)]_vars

\* C2: a successful create(S1) followed by create(S2) with S2 # S1 releases the
\* S1 region exactly once and performs exactly one allocation, of size S2.
C2_ReallocateOnSizeChange ==
  [][(last'.called /\ tcb.stack_alloc_ptr # NULL
        /\ requested_size # last'.stack_size)
       => /\ Cardinality(FreeCalls') = 1
          /\ Cardinality(MallocCalls') = 1
          /\ \A i \in FreeCalls' : last'.calls[i].ptr = tcb.stack_alloc_ptr
          /\ \A i \in MallocCalls' : last'.calls[i].size = last'.stack_size]_vars

\* C3: whenever the heap fails during create, create returns ERROR and
\* stack_alloc_ptr is NULL afterwards; a stack the call found has been freed
\* before the allocation and is no longer a live region.
C3_CleanFailure ==
  [][(last'.called /\ MallocFailed')
       => /\ last'.ret = ERROR
          /\ tcb'.stack_alloc_ptr = NULL
          /\ tcb.stack_alloc_ptr # NULL =>
               /\ \E i \in FreeCalls' :
                    /\ last'.calls[i].ptr = tcb.stack_alloc_ptr
                    /\ \A j \in MallocCalls' : i < j
               /\ \A r \in heap' : r.base # tcb.stack_alloc_ptr]_vars

C3_Witness ==
  last.called /\ MallocFailed /\ FreeCalls # {} /\ last.ret = ERROR

\* C4 as claimed: with coloration, a create that reuses the stack in place
\* leaves every byte of the region as it was.
ReusesInPlace == last'.called /\ tcb.stack_alloc_ptr # NULL /\ last'.calls = <<>>

C4_ReuseKeepsBytes ==
  [][(CONFIG_STACK_COLORATION /\ ReusesInPlace) => mem' = mem]_vars

\* C4 amended: with coloration, a create that reuses the stack in place fills
\* the first stack_size bytes of the region with 0xAA again; only the bytes
\* from offset stack_size on keep their value.
C4_ReuseRefills ==
  [][(CONFIG_STACK_COLORATION /\ ReusesInPlace)
       => /\ Len(mem') = Len(mem)
          /\ \A i \in 1 .. Len(mem) :
               mem'[i] = IF i <= last'.stack_size THEN ColorByte ELSE mem[i]]_vars

\* a used stack was reused in place: the bytes past stack_size still hold what
\* the thread wrote, the first stack_size bytes are coloured again
C4_Witness ==
  /\ CONFIG_STACK_COLORATION /\ last.called /\ last.ret = OK /\ last.calls = <<>>
  /\ Len(mem) > last.stack_size
  /\ mem[Len(mem)] = UsedByte
  /\ mem[1] = ColorByte

\* C5: with coloration, after a create that allocated S bytes and returned OK,
\* all S bytes of the new region are 0xAA.
C5_FreshRegionColored ==
  (CONFIG_STACK_COLORATION /\ last.called /\ MallocSucceeded /\ last.ret = OK)
    => /\ Len(mem) = last.stack_size
       /\ \A i \in 1 .. last.stack_size : mem[i] = ColorByte

C5_Witness ==
  /\ CONFIG_STACK_COLORATION /\ last.called /\ MallocSucceeded /\ last.ret = OK
  /\ last.stack_size = MaxStackSize
  /\ mem[last.stack_size] = ColorByte

\* C6 as claimed: after a successful create of at least the minimum size,
\* [adj_stack_ptr, adj_stack_ptr + adj_stack_size) lies within
\* [stack_alloc_ptr, stack_alloc_ptr + raw size).
C6_AdjustedIntervalInside ==
  (last.called /\ last.ret = OK /\ last.stack_size >= MinStackSize)
    => /\ tcb.stack_alloc_ptr <= tcb.adj_stack_ptr
       /\ tcb.adj_stack_ptr + tcb.adj_stack_size <= tcb.stack_alloc_ptr + RawSize

\* C6 amended: after a successful create of at least one word, the
\* adj_stack_size bytes that end with the word at adj_stack_ptr, that is
\* [adj_stack_ptr + 4 - adj_stack_size, adj_stack_ptr + 4), lie within
\* [stack_alloc_ptr, stack_alloc_ptr + raw size).
C6_StackSpanInside ==
  (last.called /\ last.ret = OK /\ last.stack_size >= WordSize)
    => /\ tcb.stack_alloc_ptr <= tcb.adj_stack_ptr + WordSize - tcb.adj_stack_size
       /\ tcb.adj_stack_ptr + WordSize <= tcb.stack_alloc_ptr + RawSize

C6_Witness ==
  /\ last.called /\ last.ret = OK /\ last.stack_size >= MinStackSize
  /\ tcb.stack_alloc_ptr % 4 # 0
  /\ tcb.adj_stack_ptr + WordSize < tcb.stack_alloc_ptr + RawSize

\* C7: after a successful create(S) of at least one word, adj_stack_ptr is
\* stack_alloc_ptr + S - 4 rounded down to a multiple of 4, so it is 4-byte
\* aligned, and adj_stack_size is adj_stack_ptr - stack_alloc_ptr + 4.
C7_AdjustedValues ==
  (last.called /\ last.ret = OK /\ last.stack_size >= WordSize)
    => /\ tcb.adj_stack_ptr
            = 4 * ((tcb.stack_alloc_ptr + last.stack_size - 4) \div 4)
       /\ tcb.adj_stack_ptr % 4 = 0
       /\ tcb.adj_stack_size = tcb.adj_stack_ptr - tcb.stack_alloc_ptr + 4

C7_Witness ==
  /\ last.called /\ last.ret = OK /\ last.stack_size >= WordSize
  /\ (tcb.stack_alloc_ptr + last.stack_size) % 4 = 2

\* C8 as claimed: whenever there is a stack, adj_stack_size is at most the
\* size requested by the most recent successful create (any size > 0).
C8_AdjustedAtMostRequested ==
  tcb.stack_alloc_ptr # NULL => tcb.adj_stack_size <= requested_size

\* C8 amended: whenever there is a stack and the most recent successful create
\* requested at least one word (4 bytes), adj_stack_size is at most the size
\* requested.
C8_AdjustedAtMostRequestedWord ==
  (tcb.stack_alloc_ptr # NULL /\ requested_size >= WordSize)
    => tcb.adj_stack_size <= requested_size

C8_Witness ==
  /\ tcb.stack_alloc_ptr # NULL /\ requested_size >= WordSize
  /\ tcb.adj_stack_size < requested_size

\* C9 as claimed: with a kernel heap configured and any thread type passed to
\* each create, every region a create releases is freed to the heap that
\* allocated it.
C9_FreedToOwner ==
  (CONFIG_MM_KERNEL_HEAP /\ last.called)
    => \A i \in FreeCalls : last.calls[i].dom = last.calls[i].owner

\* C9 amended: with a kernel heap configured, a region a create releases is
\* freed to the heap that allocated it provided the thread type passed to that
\* create selects the same heap as the thread type the region was allocated
\* for.
C9_FreedToOwnerSameClass ==
  (CONFIG_MM_KERNEL_HEAP /\ last.called)
    => \A i \in FreeCalls :
         SelectHeap(last.ttype) = last.calls[i].owner
           => last.calls[i].dom = last.calls[i].owner

C9_Witness ==
  /\ CONFIG_MM_KERNEL_HEAP /\ last.called
  /\ \E i \in FreeCalls :
       /\ last.calls[i].owner = "kmm"
       /\ last.calls[i].dom = "kmm"
       /\ last.ttype = TCB_FLAG_TTYPE_KERNEL

\* C10: an allocation goes to the kernel heap if and only if the thread type
\* is kernel and a kernel heap is configured, and otherwise to the user heap;
\* after the heap fails, create calls no other heap.
C10_HeapSelection ==
  last.called
    => /\ \A i \in MallocCalls :
            /\ last.calls[i].dom \in {"kmm", "kumm"}
            /\ (last.calls[i].dom = "kmm")
                 <=> (last.ttype = TCB_FLAG_TTYPE_KERNEL /\ CONFIG_MM_KERNEL_HEAP)
       /\ \A i \in MallocCalls :
            last.calls[i].ptr = NULL
              => \A j \in MallocCalls : j = i

C10_Witness ==
  /\ last.called /\ MallocFailed
  /\ last.ttype = TCB_FLAG_TTYPE_KERNEL /\ CONFIG_MM_KERNEL_HEAP
  /\ \E i \in MallocCalls : last.calls[i].dom = "kmm"

\* C11: create returns ERROR only when it called a heap in that call and the
\* heap returned NULL; on the reuse path (a stack is there and its recorded
\* adj_stack_size equals the request) create calls no heap and returns OK,
\* whatever the heaps would have returned.
C11_FailureOnlyFromHeap ==
  [][last'.called
       => /\ last'.ret = ERROR => MallocFailed'
          /\ (tcb.stack_alloc_ptr # NULL
                /\ tcb.adj_stack_size = last'.stack_size)
               => (last'.calls = <<>> /\ last'.ret = OK)]_vars

C11_Witness ==
  /\ last.called /\ last.calls = <<>> /\ last.ret = OK
  /\ tcb.stack_alloc_ptr # NULL /\ tcb.adj_stack_size = last.stack_size

\* C12: create releases the old stack, as the first thing it does, if and only
\* if a stack is there and its recorded adj_stack_size differs from the
\* request; a recorded size larger than the request is released as well.
C12_ReleaseRule ==
  [][last'.called
       => /\ (FreeCalls' # {})
               <=> (tcb.stack_alloc_ptr # NULL
                      /\ tcb.adj_stack_size # last'.stack_size)
          /\ (tcb.stack_alloc_ptr # NULL
                /\ tcb.adj_stack_size > last'.stack_size)
               => /\ last'.calls # <<>>
                  /\ last'.calls[1].op = "free"
                  /\ last'.calls[1].ptr = tcb.stack_alloc_ptr
          /\ FreeCalls' \subseteq {1}]_vars

\* a stack that was there has been released first and a single byte allocated
C12_Witness ==
  /\ last.called /\ FreeCalls = {1} /\ MallocSucceeded
  /\ last.stack_size = 1

\* C13: whenever there is a stack, adj_stack_ptr and adj_stack_size are the
\* values the push-down rule gives for the current stack_alloc_ptr and the
\* size of the most recent create; no older values stay with a newer region.
C13_AdjustedConsistent ==
  tcb.stack_alloc_ptr # NULL
    => LET top == Wrap(tcb.stack_alloc_ptr + requested_size - 4)
       IN /\ requested_size > 0
          /\ tcb.adj_stack_ptr = top - (top % 4)
          /\ tcb.adj_stack_size
               = Wrap(tcb.adj_stack_ptr - tcb.stack_alloc_ptr + 4)

\* a stack that was created, kept by a create of another size, and used
C13_Witness ==
  /\ tcb.stack_alloc_ptr # NULL /\ ~last.called
  /\ requested_size < RawSize
  /\ tcb.adj_stack_size = requested_size

\* C14: a create makes at most one release call and at most one allocation
\* call, the release before the allocation; a failed allocation is not
\* followed by another allocation in the same call.
C14_BoundedHeapCalls ==
  last.called
    => /\ Len(last.calls) <= 2
       /\ Cardinality(FreeCalls) <= 1
       /\ Cardinality(MallocCalls) <= 1
       /\ \A i \in FreeCalls : \A j \in MallocCalls : i < j

C14_Witness ==
  /\ last.called /\ Len(last.calls) = 2
  /\ last.calls[1].op = "free" /\ last.calls[2].op = "malloc"
  /\ last.calls[2].ptr = NULL

\* C15: after a successful create of at least 8 bytes (one alignment unit and
\* one reserved word), adj_stack_size > 0 and adj_stack_ptr >= stack_alloc_ptr,
\* for every base.
C15_PositiveSize ==
  (last.called /\ last.ret = OK /\ last.stack_size >= MinStackSize)
    => /\ tcb.adj_stack_size > 0
       /\ tcb.adj_stack_ptr >= tcb.stack_alloc_ptr

C15_Witness ==
  /\ last.called /\ last.ret = OK /\ last.stack_size = MinStackSize
  /\ tcb.stack_alloc_ptr % 4 = 1
  /\ tcb.adj_stack_ptr < tcb.stack_alloc_ptr + WordSize

\* C16: when every create asks for at least 4 bytes, the recorded
\* adj_stack_size never exceeds the size of the region at stack_alloc_ptr; so
\* the size asked for on a reuse is no larger than the region, and the fill
\* and the word at the computed top end within the region.
C16_WithinRegion ==
  tcb.stack_alloc_ptr # NULL
    => /\ tcb.adj_stack_size <= RawSize
       /\ requested_size <= RawSize
       /\ Len(mem) = RawSize
       /\ tcb.adj_stack_ptr + WordSize <= tcb.stack_alloc_ptr + RawSize
       /\ last.called => last.stack_size <= Len(mem)

\* a region kept by a create that asked for less than the region holds
C16_Witness ==
  /\ last.called /\ last.ret = OK /\ last.calls = <<>>
  /\ last.stack_size >= WordSize
  /\ last.stack_size < RawSize

C18_ResultMatchesPointer ==
  last.called
    => /\ (last.ret = OK) <=> (tcb.stack_alloc_ptr # NULL)
       /\ last.ret \in {OK, ERROR}
       /\ last.ret = OK =>
            LET sum == tcb.stack_alloc_ptr + last.stack_size - WordSize
                top == IF sum < 0 THEN sum + Modulus ELSE sum
            IN /\ tcb.adj_stack_ptr = 4 * (top \div 4)
               /\ (tcb.adj_stack_size - tcb.adj_stack_ptr
                     + tcb.stack_alloc_ptr - WordSize) % Modulus = 0

\* a create of less than a word: the values are written all the same
C18_Witness ==
  /\ last.called /\ last.ret = OK /\ last.stack_size < WordSize
  /\ tcb.adj_stack_size > last.stack_size

\* C19: without coloration, once a create of at least 4 bytes has succeeded,
\* a create that asks for the recorded adj_stack_size changes nothing: no
\* release, no allocation, and stack_alloc_ptr, adj_stack_ptr and
\* adj_stack_size (and the stack's bytes) stay as they are.
C19_FixedPoint ==
  [][(~CONFIG_STACK_COLORATION /\ last'.called
        /\ tcb.stack_alloc_ptr # NULL /\ requested_size >= WordSize
        /\ last'.stack_size = tcb.adj_stack_size)
       => /\ last'.calls = <<>>
          /\ last'.ret = OK
          /\ tcb' = tcb
          /\ heap' = heap
          /\ mem' = mem]_vars

\* the recorded size of a larger request was asked for and the stack kept
C19_Witness ==
  /\ ~CONFIG_STACK_COLORATION
  /\ last.called /\ last.ret = OK /\ last.calls = <<>>
  /\ last.stack_size = tcb.adj_stack_size
  /\ RawSize >= WordSize /\ last.stack_size < RawSize

====
